---- MODULE Spec2Model ----
(***************************************************************************)
(* TextFilterWidget of dc.js (src/charts/text-filter-widget.js): a text    *)
(* input bound to a crossfilter dimension.  The module models the widget's *)
(* fields, the input elements under its root, the filter installed on the  *)
(* dimension and the debounced redraw requests of events.trigger.          *)
(*                                                                         *)
(* Strings that the code inspects character by character (query texts and  *)
(* record values) are sequences of one-character strings.                  *)
(***************************************************************************)
EXTENDS Integers, Sequences, FiniteSets, TLC

VARIABLES
    _normalize,              \* this._normalize: name of the configured function
    _filterFunctionFactory,  \* this._filterFunctionFactory: name of the factory
    _placeHolder,            \* this._placeHolder
    _group,                  \* BaseMixin's _group, written by this.group(...)
    _dimension,              \* BaseMixin's _dimension
    chartGroup,              \* the chart group the widget was anchored in
    dom,                     \* the input elements under root(), in document order
    _input,                  \* this._input: index in dom of the widget's input, 0 = undefined
    dimFilter,               \* the filter function installed on the dimension
    typed,                   \* value of the input element at the most recent input event
    factoryArg,              \* argument of the most recent call of the factory
    timers,                  \* closures waiting in setTimeout, oldest first
    current,                 \* events.current: the closure most recently handed to trigger
    nextId,                  \* identity of the next closure
    requestFilter,           \* filter held by the dimension when `current` was handed over
    redrawnGroup,            \* chart group whose charts redrawAll last redrew
    call,                    \* the most recent operation and its arguments
    ret,                     \* what it returned
    err,                     \* what it threw
    query,                   \* filter evaluation: the query text
    record,                  \* filter evaluation: the record value
    pred,                    \* filter evaluation: the predicate the factory returned
    result                   \* filter evaluation: what the predicate returned

widgetVars == <<_normalize, _filterFunctionFactory, _placeHolder, _group, _dimension,
                chartGroup, dom, _input, dimFilter, typed, factoryArg, timers, current,
                nextId, requestFilter, redrawnGroup, call, ret, err>>
filterVars == <<query, record, pred, result>>
vars == <<widgetVars, filterVars>>

(***************************************************************************)
(* Bounds                                                                  *)
(***************************************************************************)
MaxPreInputs == 2   \* input elements under the mount point before construction
MaxEvents == 2      \* input events handled on a bound dimension
MaxLen == 2         \* length of the enumerated query texts and record values

(***************************************************************************)
(* Values                                                                  *)
(***************************************************************************)
Undefined == "undefined"
NoError == "none"
This == "this"
NoAttr == "no attribute"
NoFilter == [kind |-> "none", query |-> <<>>]
NoText == <<"undefined">>

INPUT_CSS_CLASS == "dc-text-filter-input"
DefaultPlaceHolder == "search"
GroupError == "the group function on textFilterWidget should never be called, please report the issue"
TypeError == "TypeError"

DEFAULT_CHART_GROUP == "__default_chart_group"
ChartGroups == {DEFAULT_CHART_GROUP, "groupA"}

GroupPlaceholder == "group placeholder"
Groups == {GroupPlaceholder, "userGroup"}
Dimensions == {Undefined, "dimension"}
PlaceHolders == {DefaultPlaceHolder, "type to filter"}
Normalizers == {"toLowerCase", "identity"}
Factories == {"default", "exact"}

UpperChars == <<"A","B","C","D","E","F","G","H","I","J","K","L","M",
                "N","O","P","Q","R","S","T","U","V","W","X","Y","Z">>
LowerChars == <<"a","b","c","d","e","f","g","h","i","j","k","l","m",
                "n","o","p","q","r","s","t","u","v","w","x","y","z">>

\* query texts and record values of the filter evaluation
Alphabet == {"a", "A", "b"}
Strings == UNION {[1..n -> Alphabet] : n \in 0..MaxLen}
JohnColtrane == <<"J","o","h","n"," ","C","o","l","t","r","a","n","e">>
Queries == Strings \cup {<<"c","o","l","e">>, <<"C","O","L","E">>, <<"c","o","l","n">>,
                         <<"c","o","l","t">>, <<"C","O","L","T">>}
Records == Strings \cup {JohnColtrane}

\* texts a user types into the input element
Texts == {<<>>, <<"a">>, <<"A">>}

(***************************************************************************)
(* String functions                                                        *)
(***************************************************************************)
toLowerCaseChar(c) ==
    IF \E i \in 1..Len(UpperChars) : UpperChars[i] = c
    THEN LowerChars[CHOOSE i \in 1..Len(UpperChars) : UpperChars[i] = c]
    ELSE c

toLowerCase(s) == [i \in 1..Len(s) |-> toLowerCaseChar(s[i])]

\* String.prototype.indexOf: the first position (from 0) at which q occurs in s, or -1
RECURSIVE indexOfFrom(_, _, _)
indexOfFrom(s, q, k) ==
    IF k + Len(q) > Len(s) THEN -1
    ELSE IF SubSeq(s, k + 1, k + Len(q)) = q THEN k
    ELSE indexOfFrom(s, q, k + 1)

indexOf(s, q) == indexOfFrom(s, q, 0)

\* this._normalize(s), for the configured function n
Normalize(n, s) == IF n = "toLowerCase" THEN toLowerCase(s) ELSE s

(***************************************************************************)
(* The filter-function factories and the predicates they return.  A        *)
(* predicate is the closure: its kind and the query it captured.           *)
(***************************************************************************)
DefaultFactoryQueryRaw(n, q) == q

DefaultFactoryQuery(n, q) == Normalize(n, q)

DefaultFactory(n, q) == [kind |-> "contains", query |-> DefaultFactoryQuery(n, q)]

\* a factory supplied through filterFunctionFactory(f): q => d => d === q
ExactFactory(q) == [kind |-> "exact", query |-> q]

CallFactory(f, n, q) == IF f = "default" THEN DefaultFactory(n, q) ELSE ExactFactory(q)

ContainsPredicateNotFirst(n, p, d) == indexOf(Normalize(n, d), p.query) > 0

ContainsPredicate(n, p, d) == indexOf(Normalize(n, d), p.query) # -1

\* calling predicate p on record value d while n is the configured normalization
ApplyPredicate(n, p, d) ==
    IF p.kind = "contains" THEN ContainsPredicate(n, p, d) ELSE d = p.query

(***************************************************************************)
(* DOM                                                                     *)
(***************************************************************************)
ForeignInput == [cls |-> NoAttr, listener |-> FALSE, placeholder |-> NoAttr]

\* root().append('input').classed(INPUT_CSS_CLASS, true), then .on('input', ...)
NewInput == [cls |-> INPUT_CSS_CLASS, listener |-> TRUE, placeholder |-> NoAttr]

\* selection.select('input').remove(): select takes the first match only
RemoveSelected(d) == IF d = <<>> THEN d ELSE Tail(d)

\* selectAll('input').attr('placeholder', p)
SetPlaceHolderNone(d, p) == d

SetPlaceHolderAll(d, p) == [i \in 1..Len(d) |-> [d[i] EXCEPT !.placeholder = p]]

(***************************************************************************)
(* Construction                                                            *)
(***************************************************************************)
PreExisting == UNION {[1..n -> {ForeignInput}] : n \in 0..MaxPreInputs}

FilterInit ==
    /\ query = <<>>
    /\ record = <<>>
    /\ pred = NoFilter
    /\ result = Undefined

Constructed ==
    /\ _normalize = "toLowerCase"
    /\ _filterFunctionFactory = "default"
    /\ _placeHolder = DefaultPlaceHolder
    /\ _group = GroupPlaceholder
    /\ _dimension = Undefined
    /\ chartGroup \in ChartGroups
    /\ dom \in PreExisting
    /\ _input = 0
    /\ dimFilter = NoFilter
    /\ typed = <<>>
    /\ factoryArg = NoText
    /\ timers = <<>>
    /\ current = 0
    /\ nextId = 1
    /\ requestFilter = NoFilter
    /\ redrawnGroup = Undefined
    /\ call = <<"constructor">>
    /\ ret = This
    /\ err = NoError

Init == Constructed /\ FilterInit

(***************************************************************************)
(* Operations                                                              *)
(***************************************************************************)
Returns(c, r) == call' = c /\ ret' = r /\ err' = NoError
Throws(c, e) == call' = c /\ ret' = Undefined /\ err' = e

DoRedraw(d) == SetPlaceHolderAll(d, _placeHolder)

DoRender(d) == DoRedraw(Append(RemoveSelected(d), NewInput))

Render ==
    /\ dom' = DoRender(dom)
    /\ _input' = Len(dom')
    /\ Returns(<<"render">>, This)
    /\ UNCHANGED <<_normalize, _filterFunctionFactory, _placeHolder, _group, _dimension,
                   chartGroup, dimFilter, typed, factoryArg, timers, current, nextId,
                   requestFilter, redrawnGroup, filterVars>>

Redraw ==
    /\ dom' = DoRedraw(dom)
    /\ Returns(<<"redraw">>, This)
    /\ UNCHANGED <<_normalize, _filterFunctionFactory, _placeHolder, _group, _dimension,
                   chartGroup, _input, dimFilter, typed, factoryArg, timers, current,
                   nextId, requestFilter, redrawnGroup, filterVars>>

\* normalize(), normalize(n)
SetterReturnsArgument(v) == v

SetterReturns(v) == This

NormalizeGet ==
    /\ Returns(<<"normalize">>, _normalize)
    /\ UNCHANGED <<_normalize, _filterFunctionFactory, _placeHolder, _group, _dimension,
                   chartGroup, dom, _input, dimFilter, typed, factoryArg, timers, current,
                   nextId, requestFilter, redrawnGroup, filterVars>>

NormalizeSet(n) ==
    /\ _normalize' = n
    /\ Returns(<<"normalize", n>>, SetterReturns(n))
    /\ UNCHANGED <<_filterFunctionFactory, _placeHolder, _group, _dimension,
                   chartGroup, dom, _input, dimFilter, typed, factoryArg, timers, current,
                   nextId, requestFilter, redrawnGroup, filterVars>>

\* placeHolder(), placeHolder(p)
PlaceHolderGet ==
    /\ Returns(<<"placeHolder">>, _placeHolder)
    /\ UNCHANGED <<_normalize, _filterFunctionFactory, _placeHolder, _group, _dimension,
                   chartGroup, dom, _input, dimFilter, typed, factoryArg, timers, current,
                   nextId, requestFilter, redrawnGroup, filterVars>>

PlaceHolderSet(p) ==
    /\ _placeHolder' = p
    /\ Returns(<<"placeHolder", p>>, SetterReturns(p))
    /\ UNCHANGED <<_normalize, _filterFunctionFactory, _group, _dimension,
                   chartGroup, dom, _input, dimFilter, typed, factoryArg, timers, current,
                   nextId, requestFilter, redrawnGroup, filterVars>>

\* filterFunctionFactory(), filterFunctionFactory(f)
FilterFunctionFactoryGet ==
    /\ Returns(<<"filterFunctionFactory">>, _filterFunctionFactory)
    /\ UNCHANGED <<_normalize, _filterFunctionFactory, _placeHolder, _group, _dimension,
                   chartGroup, dom, _input, dimFilter, typed, factoryArg, timers, current,
                   nextId, requestFilter, redrawnGroup, filterVars>>

FilterFunctionFactorySet(f) ==
    /\ _filterFunctionFactory' = f
    /\ Returns(<<"filterFunctionFactory", f>>, SetterReturns(f))
    /\ UNCHANGED <<_normalize, _placeHolder, _group, _dimension,
                   chartGroup, dom, _input, dimFilter, typed, factoryArg, timers, current,
                   nextId, requestFilter, redrawnGroup, filterVars>>

\* BaseMixin's dimension(d)
DimensionSet(d) ==
    /\ _dimension' = d
    /\ Returns(<<"dimension", d>>, This)
    /\ UNCHANGED <<_normalize, _filterFunctionFactory, _placeHolder, _group,
                   chartGroup, dom, _input, dimFilter, typed, factoryArg, timers, current,
                   nextId, requestFilter, redrawnGroup, filterVars>>

\* BaseMixin's group(), group(g): the accessor the constructor calls with the placeholder
GroupGet ==
    /\ Returns(<<"group">>, _group)
    /\ UNCHANGED <<_normalize, _filterFunctionFactory, _placeHolder, _group, _dimension,
                   chartGroup, dom, _input, dimFilter, typed, factoryArg, timers, current,
                   nextId, requestFilter, redrawnGroup, filterVars>>

GroupSet(g) ==
    /\ _group' = g
    /\ Returns(<<"group", g>>, This)
    /\ UNCHANGED <<_normalize, _filterFunctionFactory, _placeHolder, _dimension,
                   chartGroup, dom, _input, dimFilter, typed, factoryArg, timers, current,
                   nextId, requestFilter, redrawnGroup, filterVars>>

\* the function the constructor hands to group(...): its body is a throw
GroupPlaceholderSilent == NoError

GroupPlaceholderBody == GroupError

\* calling the value group() returns: widget.group()()
CallGroupValue(g) == IF g = GroupPlaceholder THEN GroupPlaceholderBody ELSE TypeError

InvokeGroupValue ==
    /\ IF CallGroupValue(_group) = NoError
       THEN Returns(<<"group()()">>, Undefined)
       ELSE Throws(<<"group()()">>, CallGroupValue(_group))
    /\ UNCHANGED <<_normalize, _filterFunctionFactory, _placeHolder, _group, _dimension,
                   chartGroup, dom, _input, dimFilter, typed, factoryArg, timers, current,
                   nextId, requestFilter, redrawnGroup, filterVars>>

(***************************************************************************)
(* The input listener and the debounced redraw                             *)
(***************************************************************************)
\* what the listener passes to the factory: this.value
ListenerArgumentNormalized(n, v) == Normalize(n, v)

ListenerArgument(n, v) == v

ListenerFilterStale(f, n, v) == CallFactory(f, n, typed)

\* self._filterFunctionFactory(this.value)
ListenerFilter(f, n, v) == CallFactory(f, n, ListenerArgument(n, v))

\* the argument of redrawAll(...) in the closure handed to events.trigger: none
ListenerRedrawGroup == Undefined

\* redrawAll(group): the charts of chartRegistry.list(group), the default group if none
RedrawAll(group) == IF group = Undefined THEN DEFAULT_CHART_GROUP ELSE group

\* an input event on element i, whose value has become t
InputEvent(i, t) ==
    /\ dom[i].listener
    /\ nextId <= MaxEvents
    /\ typed' = t
    /\ IF _dimension = Undefined
       THEN \* self.dimension() is undefined: the member access throws
            /\ Throws(<<"input">>, TypeError)
            /\ UNCHANGED <<dimFilter, factoryArg, timers, current, nextId, requestFilter>>
       ELSE /\ factoryArg' = ListenerArgument(_normalize, t)
            /\ dimFilter' = ListenerFilter(_filterFunctionFactory, _normalize, t)
            \* events.trigger(closure, EVENT_DELAY)
            /\ current' = nextId
            /\ timers' = Append(timers, nextId)
            /\ nextId' = nextId + 1
            /\ requestFilter' = dimFilter'
            /\ Returns(<<"input">>, Undefined)
    /\ UNCHANGED <<_normalize, _filterFunctionFactory, _placeHolder, _group, _dimension,
                   chartGroup, dom, _input, redrawnGroup, filterVars>>

\* the timeout of the oldest waiting closure: it runs only if it is events.current
Timeout ==
    /\ timers # <<>>
    /\ timers' = Tail(timers)
    /\ IF Head(timers) = current
       THEN /\ redrawnGroup' = RedrawAll(ListenerRedrawGroup)
            /\ Returns(<<"timeout", "redrawAll">>, Undefined)
       ELSE /\ Returns(<<"timeout", "superseded">>, Undefined)
            /\ UNCHANGED redrawnGroup
    /\ UNCHANGED <<_normalize, _filterFunctionFactory, _placeHolder, _group, _dimension,
                   chartGroup, dom, _input, dimFilter, typed, factoryArg, current, nextId,
                   requestFilter, filterVars>>

(***************************************************************************)
(* Filter evaluation: the default factory builds a predicate for a query,  *)
(* crossfilter calls the predicate on a record value.                      *)
(***************************************************************************)
BoolString(b) == IF b THEN "true" ELSE "false"

InitFilter ==
    /\ _normalize \in Normalizers
    /\ _filterFunctionFactory = "default"
    /\ _placeHolder = DefaultPlaceHolder
    /\ _group = GroupPlaceholder
    /\ _dimension = "dimension"
    /\ chartGroup = DEFAULT_CHART_GROUP
    /\ dom = <<>>
    /\ _input = 0
    /\ dimFilter = NoFilter
    /\ typed = <<>>
    /\ factoryArg = NoText
    /\ timers = <<>>
    /\ current = 0
    /\ nextId = 1
    /\ requestFilter = NoFilter
    /\ redrawnGroup = Undefined
    /\ call = <<"constructor">>
    /\ ret = This
    /\ err = NoError
    /\ query \in Queries
    /\ record \in Records
    /\ pred = NoFilter
    /\ result = Undefined

\* this._filterFunctionFactory(query), the default factory
BuildPredicate ==
    /\ pred = NoFilter
    /\ pred' = DefaultFactory(_normalize, query)
    /\ UNCHANGED <<widgetVars, query, record, result>>

\* the predicate called on the record value
CallPredicate ==
    /\ pred # NoFilter
    /\ result = Undefined
    /\ result' = BoolString(ApplyPredicate(_normalize, pred, record))
    /\ UNCHANGED <<widgetVars, query, record, pred>>

NextFilter == BuildPredicate \/ CallPredicate

SpecFilter == InitFilter /\ [][NextFilter]_vars

Next ==
    \/ Render
    \/ Redraw
    \/ NormalizeGet
    \/ \E n \in Normalizers : NormalizeSet(n)
    \/ PlaceHolderGet
    \/ \E p \in PlaceHolders : PlaceHolderSet(p)
    \/ FilterFunctionFactoryGet
    \/ \E f \in Factories : FilterFunctionFactorySet(f)
    \/ \E d \in Dimensions : DimensionSet(d)
    \/ GroupGet
    \/ \E g \in Groups : GroupSet(g)
    \/ InvokeGroupValue
    \/ \E i \in DOMAIN dom, t \in Texts : InputEvent(i, t)
    \/ Timeout

Spec == Init /\ [][Next]_vars
(***************************************************************************)
(* Properties                                                              *)
(***************************************************************************)
\* s contains q as a substring: some stretch of s, possibly empty, equals q
Contains(s, q) == \E i \in 0..Len(s) : \E j \in i..Len(s) : SubSeq(s, i + 1, j) = q

InputHandled == call = <<"input">> /\ err = NoError
RedrawRan == call = <<"timeout", "redrawAll">>
Applied == result # Undefined

\* C1: after every render call exactly one input element exists under the
\* mount point, however many were there before the render.
C1_RenderLeavesOneInput == call = <<"render">> => Len(dom) = 1

\* C2: the predicate the default factory returns for query q is true of record
\* value d exactly when normalize(d) contains normalize(q) as a substring; the
\* empty query yields a predicate that is true of every record.
C2_DefaultPredicateIsContains ==
    Applied =>
        /\ result = BoolString(Contains(Normalize(_normalize, record),
                                        Normalize(_normalize, query)))
        /\ query = <<>> => result = "true"

C2_Witness ==
    /\ Applied
    /\ _normalize = "toLowerCase"
    /\ query = <<"A">>
    /\ record = <<"b", "a">>
    /\ result = "true"

\* C3 as stated: with the defaults, for record value "John Coltrane" the
\* queries "cole" and "COLE" give true and the query "coln" gives false.
C3_ColeExample ==
    (Applied /\ _normalize = "toLowerCase" /\ record = JohnColtrane) =>
        /\ query = <<"c","o","l","e">> => result = "true"
        /\ query = <<"C","O","L","E">> => result = "true"
        /\ query = <<"c","o","l","n">> => result = "false"

\* C3 as amended: with the defaults, for record value "John Coltrane" the
\* queries "cole", "COLE" and "coln" all give false ("john coltrane" contains
\* none of them); the queries "colt" and "COLT" both give true.
C3_ColtExample ==
    (Applied /\ _normalize = "toLowerCase" /\ record = JohnColtrane) =>
        /\ query = <<"c","o","l","e">> => result = "false"
        /\ query = <<"C","O","L","E">> => result = "false"
        /\ query = <<"c","o","l","n">> => result = "false"
        /\ query = <<"c","o","l","t">> => result = "true"
        /\ query = <<"C","O","L","T">> => result = "true"

C3_Witness ==
    /\ Applied
    /\ _normalize = "toLowerCase"
    /\ record = JohnColtrane
    /\ query = <<"C","O","L","E">>
    /\ result = "false"

C6_InputInstallsThenRequests ==
    [][/\ InputHandled' =>
              /\ dimFilter' = CallFactory(_filterFunctionFactory, _normalize, typed')
              /\ timers' = Append(timers, nextId)
              /\ current' = nextId
              /\ requestFilter' = dimFilter'
       /\ RedrawRan' =>
              /\ timers = <<current>>
              /\ dimFilter = requestFilter]_vars

C6_Witness ==
    /\ RedrawRan
    /\ nextId = 3
    /\ typed = <<"A">>
    /\ dimFilter = [kind |-> "contains", query |-> <<"a">>]

\* C7: the redraw an input event schedules redraws the charts of the widget's
\* chart group, also when that group is not the default group.
C7_RedrawsWidgetGroup == RedrawRan => redrawnGroup = chartGroup

\* C8 as stated: the listener passes the normalized form of the input's text
\* to the configured factory, whichever factory is configured.
C8_FactoryGetsNormalized == InputHandled => factoryArg = Normalize(_normalize, typed)

\* C8 as amended: the listener passes the input's text to the configured
\* factory as it is; normalizing the query is left to the factory.
C8_FactoryGetsRawText == InputHandled => factoryArg = typed

C8_Witness ==
    /\ InputHandled
    /\ _normalize = "toLowerCase"
    /\ _filterFunctionFactory = "exact"
    /\ factoryArg = <<"A">>
    /\ dimFilter = [kind |-> "exact", query |-> <<"A">>]

\* C9: each of normalize, placeHolder and filterFunctionFactory, called with
\* one argument, stores it and returns the widget, leaving the other two
\* fields, the dimension and the input elements unchanged; called with no
\* argument it returns the stored value and changes no state.
C9_Accessors ==
    [][/\ (Len(call') = 2 /\ call'[1] = "normalize") =>
              /\ _normalize' = call'[2] /\ ret' = This /\ err' = NoError
              /\ UNCHANGED <<_placeHolder, _filterFunctionFactory, _dimension, dom, _input>>
       /\ (Len(call') = 2 /\ call'[1] = "placeHolder") =>
              /\ _placeHolder' = call'[2] /\ ret' = This /\ err' = NoError
              /\ UNCHANGED <<_normalize, _filterFunctionFactory, _dimension, dom, _input>>
       /\ (Len(call') = 2 /\ call'[1] = "filterFunctionFactory") =>
              /\ _filterFunctionFactory' = call'[2] /\ ret' = This /\ err' = NoError
              /\ UNCHANGED <<_normalize, _placeHolder, _dimension, dom, _input>>
       /\ call' = <<"normalize">> => ret' = _normalize /\ err' = NoError
       /\ call' = <<"placeHolder">> => ret' = _placeHolder /\ err' = NoError
       /\ call' = <<"filterFunctionFactory">> =>
              ret' = _filterFunctionFactory /\ err' = NoError
       /\ call' \in {<<"normalize">>, <<"placeHolder">>, <<"filterFunctionFactory">>} =>
              UNCHANGED <<_normalize, _filterFunctionFactory, _placeHolder, _group,
                          _dimension, chartGroup, dom, _input, dimFilter, typed,
                          factoryArg, timers, current, nextId, requestFilter,
                          redrawnGroup, filterVars>>]_vars

C9_Witness ==
    /\ call = <<"placeHolder", "type to filter">>
    /\ ret = This
    /\ _placeHolder = "type to filter"
    /\ _input # 0
    /\ dom[_input].placeholder = DefaultPlaceHolder

\* C10: apart from the group function, no operation of the widget signals an
\* error: construction, render, redraw, the accessors and the handling of an
\* input event all complete normally, also with no dimension bound.
C10_NoOtherErrors == call[1] \notin {"group", "group()()"} => err = NoError
====
